---- MODULE Spec2Model ----
(***************************************************************************)
(* Diagrammatic Monte Carlo for a two-level spin: the diagram state        *)
(* machine (class Diagram_core / Diagram) and its three update rules.      *)
(*                                                                         *)
(* Numbers.  The C++ code works on doubles.  The model works on exact      *)
(* rationals <<n, d>> (d >= 0, not reduced; d = 0 is the IEEE +inf that    *)
(* x/0.0 produces for x > 0).  Vertex times are kept on the integer grid   *)
(* 0 .. beta: only draws RN1, RN2 whose tau1, tau2 fall on the grid are    *)
(* enumerated, the way the unit tests derive RN1 and RN2 from the tau1 and *)
(* tau2 they want.  The longitudinal field is H = h * ln(2)/2 for the      *)
(* integer h held in the variable H, so that std::exp(2*H*x) = 2^(h*x) is  *)
(* an exact rational for every integer x.                                  *)
(***************************************************************************)
EXTENDS Integers, Sequences, FiniteSets, TLC

\* ---------------------------------------------------------------- bounds
\* length of the diagram used by the model (beta, in grid units)
MaxBeta == 5
\* largest number of vertex pairs the model lets a diagram hold
MaxPairs == 2
MaxOrder == 2 * MaxPairs

\* ------------------------------------------------------ exact rationals
Abs(x) == IF x < 0 THEN -x ELSE x

RECURSIVE GCD(_, _)
GCD(a, b) == IF b = 0 THEN a ELSE GCD(b, a % b)

\* n/d in lowest terms, d >= 0
RNorm(n, d) ==
    LET g == GCD(Abs(n), Abs(d))
        s == IF d < 0 THEN -1 ELSE 1
    IN  IF g = 0 THEN <<0, 0>> ELSE <<(s * n) \div g, (s * d) \div g>>

RInt(i) == <<i, 1>>
\* the arithmetic leaves its results unreduced: every comparison below is by
\* cross-multiplication, which does not need lowest terms
RSign(n, d) == IF d < 0 THEN <<-n, -d>> ELSE <<n, d>>
RAdd(a, b) == <<a[1] * b[2] + b[1] * a[2], a[2] * b[2]>>
RMul(a, b) == <<a[1] * b[1], a[2] * b[2]>>
RDiv(a, b) == RSign(a[1] * b[2], a[2] * b[1])
\* a < b on doubles; denominators are >= 0, and x < +inf for every finite x
RLess(a, b) == a[1] * b[2] < b[1] * a[2]
REq(a, b) == a[1] * b[2] = b[1] * a[2]
IsInt(a) == a[2] # 0 /\ a[1] % a[2] = 0
\* conversion double -> int: truncation towards zero
Trunc(a) == IF a[1] >= 0 THEN a[1] \div a[2] ELSE -((-a[1]) \div a[2])

RECURSIVE Pow2(_)
Pow2(k) == IF k = 0 THEN 1 ELSE 2 * Pow2(k - 1)

\* std::exp(2*H*x) with H = h*ln(2)/2 and x an integer: 2^(h*x)
exp2H(h, x) == IF h * x >= 0 THEN <<Pow2(h * x), 1>> ELSE <<1, Pow2(-(h * x))>>

\* std::pow(-1, n)
PowMinus1(n) == IF n % 2 = 0 THEN 1 ELSE -1

\* ------------------------------------------------------------- the draws
\* uniform_real_distribution(0,1): the rationals of [0,1) with denominator
\* at most MaxBeta
Unit == { r \in { RNorm(m, d) : m \in 0 .. (MaxBeta - 1), d \in 1 .. MaxBeta } : RLess(r, <<1, 1>>) }

\* acceptance draws handed to Diagram_core by a caller (the tests force
\* acceptance with -1 and bracket the expected rate); rate is the rate of
\* the proposal, offered as a draw when it is finite
CoreAcc(rate) == { <<-1, 1>>, <<1, 2>> } \cup (IF rate[2] # 0 THEN { RNorm(rate[1], rate[2]) } ELSE {})

\* the draws RN1 offered to attempt_remove_segment: 0, 1/3 and 2/3
RemoveDraws == { r \in Unit : r[2] \in { 1, 3 } }

\* ------------------------------------------------------------- the state
\* beta, s0, H, GAMMA, vertices: the members of Diagram_core
\* mt_generator: the generator of Diagram, as the seed it was last given
\* sim: the locals and the results object of run_simulation
\* last: the last call made, the diagram and the generator it was made on
\* prev: the value of last before that call
\* twin: a second call of run_simulation with the same parameters and seeds,
\*       its diagram, the return value of its last update and its sim
\* setup: the settings read by launch_calculations and the calls of
\*        run_simulation it has made
\* streams: the two generators of a run of run_simulation, as the numbers
\*          each has produced, and the updates the run has attempted
VARIABLES beta, s0, H, GAMMA, vertices, mt_generator, sim, last, prev, twin, setup, streams

vars == <<beta, s0, H, GAMMA, vertices, mt_generator, sim, last, prev, twin, setup, streams>>

\* the diagram as a value
Snapshot == [beta |-> beta, s0 |-> s0, H |-> H, GAMMA |-> GAMMA, vertices |-> vertices]

\* std::is_sorted
is_sorted(v) == \A i \in 1 .. (Len(v) - 1) : v[i] <= v[i + 1]

\* Diagram_core_accepts without the is_sorted check
Diagram_core_accepts_unsorted(b, s, h, g, v) ==
    /\ b > 0
    /\ ~ (s # 1 /\ s # -1)
    /\ ~ (h = 0 /\ g[1] = 0)
    /\ Len(v) % 2 = 0
    /\ \A i \in 1 .. Len(v) : ~ (v[i] > b)

\* Diagram_core::Diagram_core: TRUE iff the constructor does not throw
Diagram_core_accepts(b, s, h, g, v) ==
    /\ b > 0
    /\ ~ (s # 1 /\ s # -1)
    /\ ~ (h = 0 /\ g[1] = 0)
    /\ Len(v) % 2 = 0
    /\ \A i \in 1 .. Len(v) : ~ (v[i] > b)
    /\ is_sorted(v)

\* arguments offered to the constructor
CtorBeta == { 0, MaxBeta }
CtorSpin == { -1, 0, 1 }
CtorH == { 1 }
CtorGamma == { <<1, 2>> }
CtorVertices == UNION { [1 .. n -> 0 .. (MaxBeta + 1)] : n \in 0 .. MaxOrder }

\* no arguments: the value of the args field of a call that is not a
\* construction or a reset
NoArgs == [beta |-> 0, s0 |-> 0, H |-> 0, GAMMA |-> <<0, 1>>, vertices |-> <<>>, seed |-> 0]

NoCall == [op |-> "none", RN1 |-> <<0, 1>>, RN2 |-> <<0, 1>>, RNacc |-> <<0, 1>>, ret |-> FALSE,
           fault |-> "none", args |-> NoArgs]

\* no call before the last one
NoPrev == [call |-> NoCall,
           pre |-> [beta |-> 0, s0 |-> 0, H |-> 0, GAMMA |-> <<0, 1>>, vertices |-> <<>>],
           gen |-> [seed |-> 0]]

\* run_simulation not started
NoSim == [pc |-> "idle"]
NoTwin == [sim |-> NoSim]
NoSetup == [pc |-> "idle"]
NoStreams == [pc |-> "idle"]

\* the seeds offered to the Diagram constructor and to reset_diagram
Seeds == { 0, 1 }

\* a diagram as its constructor leaves it
InitDiagram ==
    /\ beta \in CtorBeta
    /\ s0 \in CtorSpin
    /\ H \in CtorH
    /\ GAMMA \in CtorGamma
    /\ vertices \in CtorVertices
    /\ Diagram_core_accepts(beta, s0, H, GAMMA, vertices)
    /\ mt_generator = [seed |-> 0]

Init ==
    /\ InitDiagram
    /\ sim = NoSim
    /\ last = [call |-> NoCall, pre |-> Snapshot, gen |-> mt_generator]
    /\ prev = NoPrev
    /\ twin = NoTwin
    /\ streams = NoStreams
    /\ setup = NoSetup

\* ------------------------------------------------------ acceptance rates
order(v) == Len(v)

\* std::pow(g, n) for an integer n >= 0
RECURSIVE RPow(_, _)
RPow(g, n) == IF n = 0 THEN <<1, 1>> ELSE RMul(g, RPow(g, n - 1))

\* the sum (... + t4 - t3 + t2 - t1) as value() computes it
RECURSIVE value_sum_deltatau(_)
value_sum_deltatau(v) ==
    IF Len(v) < 2 THEN 0
    ELSE (v[2] - v[1]) + value_sum_deltatau(SubSeq(v, 3, Len(v)))

\* Diagram_core::value(): pow(GAMMA, order) * exp(H*s0*(-beta + 2*sum)).  With
\* H = h*ln(2)/2 the exponential is 2^(halfexp/2), kept as its exponent
value(v, b, s, h, g) ==
    [coef |-> RPow(g, order(v)), halfexp |-> h * s * (-b + 2 * value_sum_deltatau(v))]

\* operator/: this->value() / other.value(), for two values whose exponents
\* differ by an even number (two diagrams of the same beta, H and base spin)
value_ratio(this, other) ==
    RMul(RDiv(this.coef, other.coef), exp2H(1, (this.halfexp - other.halfexp) \div 2))

acceptance_rate_add(v, b, h, g, tau1, tau2, tau2max, new_segment_spin) ==
    RDiv(RMul(RMul(RMul(g, g), exp2H(h, -(new_segment_spin * (tau2 - tau1)))),
              RInt(b * (tau2max - tau1))),
         RInt(Len(v) + 1))

\* acceptance_rate_remove with size() + 1 in place of size() - 1
acceptance_rate_remove_plus(v, b, h, g, tau1, tau2, tau2max, segment_toberemoved_spin) ==
    RDiv(RMul(exp2H(h, segment_toberemoved_spin * (tau2 - tau1)), RInt(Len(v) + 1)),
         RMul(RMul(g, g), RInt(b * (tau2max - tau1))))

acceptance_rate_remove(v, b, h, g, tau1, tau2, tau2max, segment_toberemoved_spin) ==
    RDiv(RMul(exp2H(h, segment_toberemoved_spin * (tau2 - tau1)), RInt(Len(v) - 1)),
         RMul(RMul(g, g), RInt(b * (tau2max - tau1))))

acceptance_rate_flip(b, h, s, sum) == exp2H(h, s * (b - 2 * sum))

\* Accepts with <= in place of <
Accepts_leq(RNacc, rate) == RNacc[1] * rate[2] <= rate[1] * RNacc[2]

\* the acceptance test of the three updates: RNacc < rate
Accepts(RNacc, rate) == RLess(RNacc, rate)

\* ------------------------------------------------------------ std::list
\* a position is an index 1 .. Len(v); Len(v) + 1 is end()
end(v) == Len(v) + 1

\* insert that overwrites the element at pos (appends at end())
insert_overwrite(v, pos, x) ==
    IF pos > Len(v) THEN Append(v, x) ELSE [v EXCEPT ![pos] = x]

\* list::insert(pos, x): x goes in front of the element at pos
insert(v, pos, x) == SubSeq(v, 1, pos - 1) \o <<x>> \o SubSeq(v, pos, Len(v))

\* erase that removes [first, last]
erase_closed(v, first, lst) == SubSeq(v, 1, first - 1) \o SubSeq(v, lst + 1, Len(v))

\* list::erase(first, last): removes [first, last)
erase(v, first, lst) == SubSeq(v, 1, first - 1) \o SubSeq(v, lst, Len(v))

\* --------------------------------------------------- attempt_add_segment
\* sweep that stops at the first vertex >= tau1
RECURSIVE sweep_geq(_, _, _)
sweep_geq(v, tau1, i) ==
    IF i = Len(v) + 1 THEN Len(v) + 1
    ELSE IF v[i] >= tau1 THEN i
    ELSE sweep_geq(v, tau1, i + 1)

\* the sweep of the list: position of the first vertex > tau1, end() if none
RECURSIVE sweep(_, _, _)
sweep(v, tau1, i) ==
    IF i = end(v) THEN end(v)
    ELSE IF v[i] > tau1 THEN i
    ELSE sweep(v, tau1, i + 1)

\* insert_pair that forgets the second insert
insert_pair_single(v, tau3_it, tau1, tau2) ==
    SubSeq(v, 1, tau3_it - 1) \o <<tau1>> \o SubSeq(v, tau3_it, Len(v))

\* the two inserts in front of tau3_it; the iterator keeps pointing at tau3,
\* which the first insert moves one place to the right
insert_pair(v, tau3_it, tau1, tau2) == insert(insert(v, tau3_it, tau1), tau3_it + 1, tau2)

\* TRUE iff tau1 and tau2 of the draws fall on the integer grid
on_grid(v, b, RN1, RN2) ==
    LET tau1r == RMul(RN1, RInt(b))
        tau1 == Trunc(tau1r)
        tau3_it == sweep(v, tau1, 1)
        tau2max == IF tau3_it # end(v) THEN v[tau3_it] ELSE b
    IN  IsInt(tau1r) /\ IsInt(RMul(RN2, RInt(tau2max - tau1)))

\* add_proposal that gives the new segment the spin of the segment it is
\* put in
add_proposal_same_spin(v, b, s, h, g, RN1, RN2) ==
    LET tau1r == RMul(RN1, RInt(b))
        tau1 == Trunc(tau1r)
        tau3_it == sweep(v, tau1, 1)
        new_segment_index == tau3_it - 1
        tau2max == IF tau3_it # end(v) THEN v[tau3_it] ELSE b
        tau2r == RAdd(RInt(tau1), RMul(RN2, RInt(tau2max - tau1)))
        tau2 == Trunc(tau2r)
        new_segment_spin == s * PowMinus1(new_segment_index)
    IN  [tau1 |-> tau1, tau2 |-> tau2, tau2max |-> tau2max, tau3_it |-> tau3_it,
         new_segment_index |-> new_segment_index,
         new_segment_spin |-> new_segment_spin,
         rate |-> acceptance_rate_add(v, b, h, g, tau1, tau2, tau2max, new_segment_spin)]

\* everything attempt_add_segment computes before the acceptance test
add_proposal(v, b, s, h, g, RN1, RN2) ==
    LET tau1r == RMul(RN1, RInt(b))
        tau1 == Trunc(tau1r)
        tau3_it == sweep(v, tau1, 1)
        new_segment_index == tau3_it - 1
        tau2max == IF tau3_it # end(v) THEN v[tau3_it] ELSE b
        tau2r == RAdd(RInt(tau1), RMul(RN2, RInt(tau2max - tau1)))
        tau2 == Trunc(tau2r)
        new_segment_spin == s * PowMinus1(new_segment_index + 1)
    IN  [tau1 |-> tau1, tau2 |-> tau2, tau2max |-> tau2max, tau3_it |-> tau3_it,
         new_segment_index |-> new_segment_index,
         new_segment_spin |-> new_segment_spin,
         rate |-> acceptance_rate_add(v, b, h, g, tau1, tau2, tau2max, new_segment_spin)]

\* add_outcome that inserts the pair before it tests the draw
add_outcome_eager(v, b, s, h, g, RN1, RN2, RNacc) ==
    LET p == add_proposal(v, b, s, h, g, RN1, RN2)
    IN  [ret |-> Accepts(RNacc, p.rate),
         vertices |-> insert_pair(v, p.tau3_it, p.tau1, p.tau2)]

\* return value and vertex list of attempt_add_segment
add_outcome(v, b, s, h, g, RN1, RN2, RNacc) ==
    LET p == add_proposal(v, b, s, h, g, RN1, RN2)
    IN  IF Accepts(RNacc, p.rate)
        THEN [ret |-> TRUE, vertices |-> insert_pair(v, p.tau3_it, p.tau1, p.tau2)]
        ELSE [ret |-> FALSE, vertices |-> v]

attempt_add_segment(RN1, RN2, RNacc) ==
    /\ LET o == add_outcome(vertices, beta, s0, H, GAMMA, RN1, RN2, RNacc)
       IN  /\ vertices' = o.vertices
           /\ last' = [call |-> [op |-> "add", RN1 |-> RN1, RN2 |-> RN2, RNacc |-> RNacc, ret |-> o.ret,
                                fault |-> "none", args |-> NoArgs],
                       pre |-> Snapshot, gen |-> mt_generator]
    /\ UNCHANGED <<beta, s0, H, GAMMA>>

\* ------------------------------------------------ attempt_remove_segment
\* segment_index over order() - 2 pairs
segment_index_short(RN1, n) ==
    (IF RN1[1] >= 0 THEN (RN1[1] * (n - 2)) \div RN1[2] ELSE 0) + 1

\* int segment_toberemoved_index = RN1 * (order() - 1) + 1
segment_index(RN1, n) == Trunc(RAdd(RMul(RN1, RInt(n - 1)), RInt(1)))

\* everything attempt_remove_segment computes before the acceptance test
\* (order > 0)
remove_proposal(v, b, s, h, g, RN1) ==
    LET segment_toberemoved_index == segment_index(RN1, order(v))
        tau1_it == 1 + (segment_toberemoved_index - 1)
        tau2_it == tau1_it + 1
        tau1 == v[tau1_it]
        tau2 == v[tau2_it]
        tau3_it == tau2_it + 1
        tau2max == IF tau3_it # end(v) THEN v[tau3_it] ELSE b
        segment_toberemoved_spin == s * PowMinus1(segment_toberemoved_index)
    IN  [tau1 |-> tau1, tau2 |-> tau2, tau2max |-> tau2max,
         tau1_it |-> tau1_it, tau3_it |-> tau3_it,
         segment_toberemoved_index |-> segment_toberemoved_index,
         segment_toberemoved_spin |-> segment_toberemoved_spin,
         rate |-> acceptance_rate_remove(v, b, h, g, tau1, tau2, tau2max, segment_toberemoved_spin)]

\* remove_outcome whose zero-order shortcut returns true
remove_outcome_zero_true(v, b, s, h, g, RN1, RNacc) ==
    IF order(v) = 0 THEN [ret |-> TRUE, vertices |-> v]
    ELSE LET p == remove_proposal(v, b, s, h, g, RN1)
         IN  IF Accepts(RNacc, p.rate)
             THEN [ret |-> TRUE, vertices |-> erase(v, p.tau1_it, p.tau3_it)]
             ELSE [ret |-> FALSE, vertices |-> v]

\* return value and vertex list of attempt_remove_segment
remove_outcome(v, b, s, h, g, RN1, RNacc) ==
    IF order(v) = 0 THEN [ret |-> FALSE, vertices |-> v]
    ELSE LET p == remove_proposal(v, b, s, h, g, RN1)
         IN  IF Accepts(RNacc, p.rate)
             THEN [ret |-> TRUE, vertices |-> erase(v, p.tau1_it, p.tau3_it)]
             ELSE [ret |-> FALSE, vertices |-> v]

attempt_remove_segment(RN1, RNacc) ==
    /\ LET o == remove_outcome(vertices, beta, s0, H, GAMMA, RN1, RNacc)
       IN  /\ vertices' = o.vertices
           /\ last' = [call |-> [op |-> "remove", RN1 |-> RN1, RN2 |-> <<0, 1>>, RNacc |-> RNacc, ret |-> o.ret,
                                fault |-> "none", args |-> NoArgs],
                       pre |-> Snapshot, gen |-> mt_generator]
    /\ UNCHANGED <<beta, s0, H, GAMMA>>

\* ----------------------------------------------------- attempt_spin_flip
\* the sum (... + t4 - t3 + t2 - t1), two vertices per step
RECURSIVE sum_deltatau(_)
sum_deltatau(v) ==
    IF v = <<>> THEN 0
    ELSE (v[2] - v[1]) + sum_deltatau(SubSeq(v, 3, Len(v)))

\* where the for loop of attempt_spin_flip leaves its iterator when started
\* at it: the loop stops when the iterator is end(), and each step advances
\* it by two; a position greater than end() means the iterator stepped over
\* end(), after which nothing stops the loop
RECURSIVE spin_flip_scan(_, _)
spin_flip_scan(v, it) ==
    IF it >= end(v) THEN it
    ELSE spin_flip_scan(v, it + 2)

\* flip_outcome that sets the base spin to -1 instead of negating it
flip_outcome_set_minus(v, b, s, h, RNacc) ==
    IF Accepts(RNacc, acceptance_rate_flip(b, h, s, sum_deltatau(v)))
    THEN [ret |-> TRUE, s0 |-> -1]
    ELSE [ret |-> FALSE, s0 |-> s]

\* return value and base spin of attempt_spin_flip
flip_outcome(v, b, s, h, RNacc) ==
    IF Accepts(RNacc, acceptance_rate_flip(b, h, s, sum_deltatau(v)))
    THEN [ret |-> TRUE, s0 |-> s * (-1)]
    ELSE [ret |-> FALSE, s0 |-> s]

\* attempt_spin_flip that empties the vertex list when it flips
attempt_spin_flip_clears(RNacc) ==
    /\ LET o == flip_outcome(vertices, beta, s0, H, RNacc)
       IN  /\ s0' = o.s0
           /\ vertices' = IF o.ret THEN <<>> ELSE vertices
           /\ last' = [call |-> [op |-> "flip", RN1 |-> <<0, 1>>, RN2 |-> <<0, 1>>, RNacc |-> RNacc, ret |-> o.ret,
                                fault |-> "none", args |-> NoArgs],
                       pre |-> Snapshot, gen |-> mt_generator]
    /\ UNCHANGED <<beta, H, GAMMA>>

attempt_spin_flip(RNacc) ==
    /\ spin_flip_scan(vertices, 1) = end(vertices)
    /\ LET o == flip_outcome(vertices, beta, s0, H, RNacc)
       IN  /\ s0' = o.s0
           /\ last' = [call |-> [op |-> "flip", RN1 |-> <<0, 1>>, RN2 |-> <<0, 1>>, RNacc |-> RNacc, ret |-> o.ret,
                                fault |-> "none", args |-> NoArgs],
                       pre |-> Snapshot, gen |-> mt_generator]
    /\ UNCHANGED <<beta, H, GAMMA, vertices>>

\* ------------------------------------- Diagram_core driven by a caller
\* rate of the proposal the draws select, offered as an acceptance draw
add_rate(RN1, RN2) == add_proposal(vertices, beta, s0, H, GAMMA, RN1, RN2).rate
remove_rate(RN1) ==
    IF order(vertices) = 0 THEN <<0, 1>>
    ELSE remove_proposal(vertices, beta, s0, H, GAMMA, RN1).rate
flip_rate == acceptance_rate_flip(beta, H, s0, sum_deltatau(vertices))

CoreAdd ==
    /\ UNCHANGED <<mt_generator, sim, prev, twin, setup, streams>>
    /\ Len(vertices) + 2 <= MaxOrder
    /\ \E RN1 \in Unit :
          /\ IsInt(RMul(RN1, RInt(beta)))
          /\ \E RN2 \in Unit :
                /\ on_grid(vertices, beta, RN1, RN2)
                /\ \E RNacc \in CoreAcc(add_rate(RN1, RN2)) : attempt_add_segment(RN1, RN2, RNacc)
CoreRemove ==
    /\ UNCHANGED <<mt_generator, sim, prev, twin, setup, streams>>
    /\ \E RN1 \in RemoveDraws : \E RNacc \in CoreAcc(remove_rate(RN1)) :
          attempt_remove_segment(RN1, RNacc)
CoreFlip ==
    /\ UNCHANGED <<mt_generator, sim, prev, twin, setup, streams>>
    /\ \E RNacc \in CoreAcc(flip_rate) : attempt_spin_flip(RNacc)

Next == CoreAdd \/ CoreRemove \/ CoreFlip

Spec == Init /\ [][Next]_vars

\* ------------------------------ Diagram: the draws come from its generator
\* acceptance draws of the generator: 0, 1/2 and, when it lies in [0,1), the
\* rate of the proposal
RNGAcc(rate) ==
    { <<0, 1>>, <<1, 2>> }
        \cup (IF rate[2] # 0 /\ rate[1] >= 0 /\ RLess(rate, <<1, 1>>) THEN { RNorm(rate[1], rate[2]) } ELSE {})

\* Diagram::attempt_add_segment(): attempt_add_segment(RNG, RNG, RNG)
Diagram_attempt_add_segment ==
    /\ Len(vertices) + 2 <= MaxOrder
    /\ \E RN1 \in Unit :
          /\ IsInt(RMul(RN1, RInt(beta)))
          /\ \E RN2 \in Unit :
                /\ on_grid(vertices, beta, RN1, RN2)
                /\ \E RNacc \in RNGAcc(add_rate(RN1, RN2)) : attempt_add_segment(RN1, RN2, RNacc)

\* Diagram::attempt_remove_segment(): attempt_remove_segment(RNG, RNG)
Diagram_attempt_remove_segment ==
    \E RN1 \in RemoveDraws : \E RNacc \in RNGAcc(remove_rate(RN1)) :
        attempt_remove_segment(RN1, RNacc)

\* Diagram::attempt_spin_flip(): attempt_spin_flip(RNG)
Diagram_attempt_spin_flip == \E RNacc \in RNGAcc(flip_rate) : attempt_spin_flip(RNacc)

\* run_simulation builds the diagram of order 0
InitRun ==
    /\ Init
    /\ vertices = <<>>

\* the three updates called on a Diagram outside run_simulation
DiagramAdd == Diagram_attempt_add_segment /\ UNCHANGED <<mt_generator, sim, prev, twin, setup, streams>>
DiagramRemove == Diagram_attempt_remove_segment /\ UNCHANGED <<mt_generator, sim, prev, twin, setup, streams>>
DiagramFlip == Diagram_attempt_spin_flip /\ UNCHANGED <<mt_generator, sim, prev, twin, setup, streams>>

NextDiagram == DiagramAdd \/ DiagramRemove \/ DiagramFlip

SpecDiagram == InitRun /\ [][NextDiagram]_vars

\* -------------------------------------------------------- run_simulation
MaxSteps == 3

\* the probabilities of choosing the updates
attempt_flip_probability == <<1, 3>>
attempt_add_probability == RDiv(RAdd(<<1, 1>>, <<-attempt_flip_probability[1], attempt_flip_probability[2]>>), <<2, 1>>)
attempt_remove_probability == attempt_add_probability

\* draws of which_update: one inside each branch of the selection and the two
\* at which the selection changes branch
WhichDraws == { <<0, 1>>, <<1, 3>>, <<1, 2>>, <<2, 3>>, <<5, 6>> }

\* the draws of the diagram's generator offered during a run
SimRN == { <<0, 1>>, <<1, 2>>, <<1, MaxBeta>> }
SimAcc == { <<0, 1>>, <<1, 2>> }

\* selected_update with the comparisons closed on the right
selected_update_closed(which_update) ==
    IF ~ RLess(attempt_add_probability, which_update) THEN "add"
    ELSE IF ~ RLess(RAdd(attempt_add_probability, attempt_remove_probability), which_update) THEN "remove"
    ELSE "flip"

\* the update the draw selects
selected_update(which_update) ==
    IF RLess(which_update, attempt_add_probability) THEN "add"
    ELSE IF RLess(which_update, RAdd(attempt_add_probability, attempt_remove_probability)) THEN "remove"
    ELSE "flip"

\* sum_deltatau() that stops after the first pair
Diagram_core_sum_deltatau_first(v) ==
    IF Len(v) < 2 THEN 0
    ELSE v[2] - v[1]

\* the member sum_deltatau(): the sum (... + t4 - t3 + t2 - t1)
RECURSIVE Diagram_core_sum_deltatau(_)
Diagram_core_sum_deltatau(v) ==
    IF Len(v) < 2 THEN 0
    ELSE (v[2] - v[1]) + Diagram_core_sum_deltatau(SubSeq(v, 3, Len(v)))

\* sigmaz_sample without the division by beta
sigmaz_sample_undivided(v, b, s) ==
    RInt((b - 2 * Diagram_core_sum_deltatau(v)) * s)

\* the sample of sigma_z on a diagram: (beta - 2*sum_deltatau()) * get_s0() / beta
sigmaz_sample(v, b, s) ==
    RDiv(RInt((b - 2 * Diagram_core_sum_deltatau(v)) * s), RInt(b))

\* b as the unsigned number added to a counter
AsCount(b) == IF b THEN 1 ELSE 0

\* the counters of the selected update after the attempt returned ret
count_update(sm, update, ret) ==
    IF update = "add"
    THEN [sm EXCEPT !.N_attempted_addsegment = @ + 1, !.N_accepted_addsegment = @ + AsCount(ret)]
    ELSE IF update = "remove"
    THEN [sm EXCEPT !.N_attempted_removesegment = @ + 1, !.N_accepted_removesegment = @ + AsCount(ret)]
    ELSE [sm EXCEPT !.N_attempted_flips = @ + 1, !.N_accepted_flips = @ + AsCount(ret)]

\* collect_statistics without the thermalization gate
collect_statistics_ungated(sm, v, b, s) ==
    [sm EXCEPT !.temp_sigmax = @ + order(v),
               !.temp_sigmaz = LET t == RAdd(@, sigmaz_sample(v, b, s))
                               IN  RNorm(t[1], t[2]),
               !.temp_avgorder = @ + order(v),
               !.temp_maxorder = IF @ > order(v) THEN @ ELSE order(v),
               !.N_measures = @ + 1]

\* collect_statistics that measures from the iteration after N_thermalization_steps
collect_statistics_late(sm, v, b, s) ==
    IF sm.loop_iteration > sm.N_thermalization_steps
    THEN [sm EXCEPT !.temp_sigmax = @ + order(v),
                    !.temp_sigmaz = LET t == RAdd(@, sigmaz_sample(v, b, s))
                                    IN  RNorm(t[1], t[2]),
                    !.temp_avgorder = @ + order(v),
                    !.temp_maxorder = IF @ > order(v) THEN @ ELSE order(v),
                    !.N_measures = @ + 1]
    ELSE sm

\* collect_statistics with temp_sigmax assigned instead of accumulated
collect_statistics_assigns(sm, v, b, s) ==
    IF sm.loop_iteration >= sm.N_thermalization_steps
    THEN [sm EXCEPT !.temp_sigmax = order(v),
                    !.temp_sigmaz = LET t == RAdd(@, sigmaz_sample(v, b, s))
                                    IN  RNorm(t[1], t[2]),
                    !.temp_avgorder = @ + order(v),
                    !.temp_maxorder = IF @ > order(v) THEN @ ELSE order(v),
                    !.N_measures = @ + 1]
    ELSE sm

\* the statistics collected at the end of an iteration, on the diagram the
\* update left
collect_statistics(sm, v, b, s) ==
    IF sm.loop_iteration >= sm.N_thermalization_steps
    THEN [sm EXCEPT !.temp_sigmax = @ + order(v),
                    !.temp_sigmaz = LET t == RAdd(@, sigmaz_sample(v, b, s))
                                    IN  RNorm(t[1], t[2]),
                    !.temp_avgorder = @ + order(v),
                    !.temp_maxorder = IF @ > order(v) THEN @ ELSE order(v),
                    !.N_measures = @ + 1]
    ELSE sm

\* one iteration of the main loop less the attempt itself: the draw of
\* which_update, the counters of the update it selects, the statistics,
\* ++loop_iteration; order_after is the history of the order the diagram had
\* at the end of each iteration
iteration_skips_count(sm, which_update, ret, v, b, s) ==
    [collect_statistics(sm, v, b, s) EXCEPT !.loop_iteration = @ + 1,
                                            !.which_update = which_update,
                                            !.order_after = Append(@, order(v))]

iteration(sm, which_update, ret, v, b, s) ==
    [collect_statistics(count_update(sm, selected_update(which_update), ret), v, b, s)
        EXCEPT !.loop_iteration = @ + 1,
               !.which_update = which_update,
               !.order_after = Append(@, order(v))]

\* an iteration that selects ADD_SEGMENT
AddIteration ==
    /\ sim.pc = "loop"
    /\ sim.loop_iteration < sim.N_total_steps
    /\ \E which_update \in WhichDraws :
          /\ selected_update(which_update) = "add"
          /\ Len(vertices) + 2 <= MaxOrder
          /\ \E RN1 \in SimRN :
                /\ IsInt(RMul(RN1, RInt(beta)))
                /\ \E RN2 \in SimRN :
                      /\ on_grid(vertices, beta, RN1, RN2)
                      /\ \E RNacc \in SimAcc : attempt_add_segment(RN1, RN2, RNacc)
          /\ sim' = iteration(sim, which_update, last'.call.ret, vertices', beta', s0')
    /\ UNCHANGED <<mt_generator, prev>>

\* an iteration that selects REMOVE_SEGMENT
RemoveIteration ==
    /\ sim.pc = "loop"
    /\ sim.loop_iteration < sim.N_total_steps
    /\ \E which_update \in WhichDraws :
          /\ selected_update(which_update) = "remove"
          /\ \E RN1 \in SimAcc : \E RNacc \in SimAcc : attempt_remove_segment(RN1, RNacc)
          /\ sim' = iteration(sim, which_update, last'.call.ret, vertices', beta', s0')
    /\ UNCHANGED <<mt_generator, prev>>

\* an iteration that selects SPIN_FLIP
FlipIteration ==
    /\ sim.pc = "loop"
    /\ sim.loop_iteration < sim.N_total_steps
    /\ \E which_update \in WhichDraws :
          /\ selected_update(which_update) = "flip"
          /\ \E RNacc \in SimAcc : attempt_spin_flip(RNacc)
          /\ sim' = iteration(sim, which_update, last'.call.ret, vertices', beta', s0')
    /\ UNCHANGED <<mt_generator, prev>>

\* what the conversion of a NaN to unsigned long long may yield (undefined)
NanAsCount == { 0, 1 }

\* the results object after the final results are computed; junk is what the
\* conversion of temp_avgorder / N_measures yields when that is a NaN
final_results(sm, b, g, junk) ==
    [sm EXCEPT
        !.pc = "done",
        !.measured_sigmax =
            RDiv(RInt(sm.temp_sigmax), RMul(RInt(-(sm.N_measures * b)), g)),
        !.measured_sigmaz = RDiv(sm.temp_sigmaz, RInt(sm.N_measures)),
        !.avg_diagram_order =
            IF sm.N_measures = 0 THEN junk
            ELSE Trunc(RDiv(RInt(sm.temp_avgorder), RInt(sm.N_measures))),
        !.max_diagram_order = sm.temp_maxorder]

\* the final results, computed when the loop ends
Finish ==
    /\ sim.pc = "loop"
    /\ ~ (sim.loop_iteration < sim.N_total_steps)
    /\ \E junk \in NanAsCount : sim' = final_results(sim, beta, GAMMA, junk)
    /\ UNCHANGED <<beta, s0, H, GAMMA, vertices, mt_generator, last, prev>>

\* run_simulation entered: the diagram of order 0, the results object with
\* its counters at 0, the temporaries at 0
InitSimRun ==
    /\ InitDiagram
    /\ vertices = <<>>
    /\ last = [call |-> NoCall, pre |-> Snapshot, gen |-> mt_generator]
    /\ prev = NoPrev
    /\ \E total \in 0 .. MaxSteps : \E thermalization \in 0 .. MaxSteps :
          sim = [pc |-> "loop",
                 initial_s0 |-> s0,
                 N_total_steps |-> total,
                 N_thermalization_steps |-> thermalization,
                 loop_iteration |-> 0,
                 which_update |-> <<0, 1>>,
                 order_after |-> <<>>,
                 N_measures |-> 0,
                 N_attempted_flips |-> 0, N_accepted_flips |-> 0,
                 N_attempted_addsegment |-> 0, N_accepted_addsegment |-> 0,
                 N_attempted_removesegment |-> 0, N_accepted_removesegment |-> 0,
                 temp_sigmax |-> 0, temp_sigmaz |-> <<0, 1>>,
                 temp_avgorder |-> 0, temp_maxorder |-> 0,
                 measured_sigmax |-> <<0, 1>>, measured_sigmaz |-> <<0, 1>>,
                 avg_diagram_order |-> 0, max_diagram_order |-> 0]

InitSim ==
    /\ InitSimRun
    /\ twin = NoTwin
    /\ streams = NoStreams
    /\ setup = NoSetup

SimAdd == AddIteration /\ UNCHANGED <<twin, setup, streams>>
SimRemove == RemoveIteration /\ UNCHANGED <<twin, setup, streams>>
SimFlip == FlipIteration /\ UNCHANGED <<twin, setup, streams>>
SimFinish == Finish /\ UNCHANGED <<twin, setup, streams>>

NextSim == SimFinish \/ SimFlip \/ SimRemove \/ SimAdd

SpecSim == InitSim /\ [][NextSim]_vars

\* the runs that sample every iteration: the statistics block is straight-line
\* code, executed in full by each of their iterations
InitSimFair ==
    /\ InitSim
    /\ sim.N_thermalization_steps = 0

\* run_simulation is sequential code: while a statement is left to execute
\* the next one is executed
SpecSimFair == InitSimFair /\ [][NextSim]_vars /\ WF_vars(NextSim)

\* --------------------------------------- the two generators of a run
\* the calls of RNG a method of Diagram makes on the generator of the diagram
Diagram_RNG_calls(update) ==
    IF update = "add" THEN 3
    ELSE IF update = "remove" THEN 2
    ELSE 1

\* the numbers the Diagram method of call was given
Diagram_RNG_draws(call) ==
    IF call.op = "add" THEN <<call.RN1, call.RN2, call.RNacc>>
    ELSE IF call.op = "remove" THEN <<call.RN1, call.RNacc>>
    ELSE <<call.RNacc>>

\* generators_after when the Diagram draws from the generator of
\* run_simulation
generators_after_shared(st, which_update, call) ==
    [st EXCEPT !.update_choice.drawn = @ + 1 + Diagram_RNG_calls(call.op),
               !.update_choice.outputs = Append(@, which_update) \o Diagram_RNG_draws(call),
               !.updates = Append(@, call.op)]

\* the generators after an iteration that drew which_update from the generator
\* of run_simulation and made call on the diagram, which draws from its own
generators_after(st, which_update, call) ==
    [st EXCEPT !.update_choice.drawn = @ + 1,
               !.update_choice.outputs = Append(@, which_update),
               !.diagram.drawn = @ + Diagram_RNG_calls(call.op),
               !.updates = Append(@, call.op)]

\* run_simulation entered: both generators seeded, nothing drawn; the runs
\* are those that sample every iteration
InitStreams ==
    /\ InitSimRun
    /\ sim.N_thermalization_steps = 0
    /\ twin = NoTwin
    /\ setup = NoSetup
    /\ streams = [pc |-> "run",
                  update_choice |-> [drawn |-> 0, outputs |-> <<>>],
                  diagram |-> [drawn |-> 0],
                  updates |-> <<>>]

StreamAdd ==
    /\ AddIteration
    /\ streams' = generators_after(streams, sim'.which_update, last'.call)
    /\ UNCHANGED <<twin, setup>>

StreamRemove ==
    /\ RemoveIteration
    /\ streams' = generators_after(streams, sim'.which_update, last'.call)
    /\ UNCHANGED <<twin, setup>>

StreamFlip ==
    /\ FlipIteration
    /\ streams' = generators_after(streams, sim'.which_update, last'.call)
    /\ UNCHANGED <<twin, setup>>

StreamFinish == Finish /\ UNCHANGED <<twin, setup, streams>>

NextStreams == StreamFinish \/ StreamFlip \/ StreamRemove \/ StreamAdd

SpecStreams == InitStreams /\ [][NextStreams]_vars

\* ------------------------------------ run_simulation called a second time
\* the iteration the second call makes when the first has just drawn
\* which_update and made the update of last' : the same update with the same
\* draws, both generators being seeded alike
twin_iteration(t, call, which_update) ==
    LET d == t.diagram
        o == IF call.op = "add"
             THEN add_outcome(d.vertices, d.beta, d.s0, d.H, d.GAMMA, call.RN1, call.RN2, call.RNacc)
                      @@ [s0 |-> d.s0]
             ELSE IF call.op = "remove"
             THEN remove_outcome(d.vertices, d.beta, d.s0, d.H, d.GAMMA, call.RN1, call.RNacc)
                      @@ [s0 |-> d.s0]
             ELSE flip_outcome(d.vertices, d.beta, d.s0, d.H, call.RNacc)
                      @@ [vertices |-> d.vertices]
    IN  [diagram |-> [d EXCEPT !.vertices = o.vertices, !.s0 = o.s0],
         ret |-> o.ret,
         sim |-> iteration(t.sim, which_update, o.ret, o.vertices, d.beta, o.s0)]

TwinAdd ==
    /\ AddIteration
    /\ twin' = twin_iteration(twin, last'.call, sim'.which_update)
    /\ UNCHANGED <<setup, streams>>

TwinRemove ==
    /\ RemoveIteration
    /\ twin' = twin_iteration(twin, last'.call, sim'.which_update)
    /\ UNCHANGED <<setup, streams>>

TwinFlip ==
    /\ FlipIteration
    /\ twin' = twin_iteration(twin, last'.call, sim'.which_update)
    /\ UNCHANGED <<setup, streams>>

\* both calls compute their final results, each with its own conversion
TwinFinish ==
    /\ Finish
    /\ \E junk \in NanAsCount :
          twin' = [twin EXCEPT
                     !.sim = final_results(twin.sim, twin.diagram.beta, twin.diagram.GAMMA, junk)]
    /\ UNCHANGED <<setup, streams>>

InitTwin ==
    /\ InitSimRun
    /\ twin = [diagram |-> Snapshot, ret |-> FALSE, sim |-> sim]
    /\ streams = NoStreams
    /\ setup = NoSetup

NextTwin == TwinAdd \/ TwinRemove \/ TwinFlip \/ TwinFinish

SpecTwin == InitTwin /\ [][NextTwin]_vars

\* ---------------------------------------------------- launch_calculations
\* A double of the settings file, m * 10^e, for the values whose size
\* against machine epsilon matters
Dec(m, e) == [m |-> m, e |-> e]
DecZero == Dec(0, 0)

RECURSIVE Pow10(_)
Pow10(k) == IF k = 0 THEN 1 ELSE 10 * Pow10(k - 1)

\* a and b on the smaller of their exponents
DecAlign(a, b) ==
    LET e == IF a.e < b.e THEN a.e ELSE b.e
    IN  [a |-> a.m * Pow10(a.e - e), b |-> b.m * Pow10(b.e - e), e |-> e]

DecAdd(a, b) == LET c == DecAlign(a, b) IN Dec(c.a + c.b, c.e)
DecLeq(a, b) == LET c == DecAlign(a, b) IN c.a <= c.b

\* std::abs(x) < std::numeric_limits<double>::epsilon(), epsilon being
\* 2^-52 = 222.04...e-18; exponents are not below -18
below_epsilon(x) ==
    \/ x.m = 0
    \/ /\ x.e + 18 <= 3
       /\ Abs(x.m) * Pow10(x.e + 18) <= 222

\* defaults for optional settings parameters
N_THERMALIZATION_STEPS_DEFAULT == 0
INITIAL_S0_DEFAULT == 1
SAMPLES_PER_POINT_DEFAULT == 1

\* a key of the settings: present with a value, or absent
Absent(zero) == [present |-> FALSE, value |-> zero]
Present(v) == [present |-> TRUE, value |-> v]
Opt(S, zero) == { Absent(zero) } \cup { Present(v) : v \in S }

contains(settings, key) == settings[key].present

\* the values of GAMMA offered: 0, values below and above epsilon, 1/2
SetGamma == { Dec(0, 0), Dec(1, -17), Dec(-2, -16), Dec(3, -16), Dec(5, -1), Dec(-5, -1) }
\* min, max and step of the ranges offered
SetGammaRange == { [min |-> Dec(-5, -1), max |-> Dec(5, -1), step |-> Dec(5, -1)],
                   [min |-> Dec(0, 0), max |-> Dec(5, -1), step |-> Dec(5, -1)],
                   [min |-> Dec(5, -1), max |-> Dec(1, 0), step |-> Dec(5, -1)] }

\* the settings files offered; beta, H, N_total_steps and output_file are
\* always given, as single values
Settings ==
    [CALC_TYPE : { "single", "sweep", "convergence-test" },
     initial_s0 : Opt({ -1, 1 }, 0),
     N_thermalization_steps : Opt({ 0, 2 }, 0),
     samples_per_point : Opt({ 2 }, 0),
     GAMMA : Opt(SetGamma, DecZero),
     GAMMA_range : Opt(SetGammaRange, [min |-> DecZero, max |-> DecZero, step |-> DecZero]),
     beta : { Present(1) },
     H : { Present(1) },
     N_total_steps : { Present(MaxSteps) }]

\* the values x = min; x <= max; x += step
RECURSIVE range_values(_, _, _)
range_values(x, max, step) ==
    IF DecLeq(x, max) THEN <<x>> \o range_values(DecAdd(x, step), max, step) ELSE <<>>

\* range_generator(settings, "GAMMA"): the values of the range when min, max
\* and step are given, else the single value, else exit
range_generator(settings) ==
    IF contains(settings, "GAMMA_range")
    THEN LET r == settings.GAMMA_range.value
         IN  [exit |-> FALSE, values |-> range_values(r.min, r.max, r.step)]
    ELSE IF contains(settings, "GAMMA")
    THEN [exit |-> FALSE, values |-> <<settings.GAMMA.value>>]
    ELSE [exit |-> TRUE, values |-> <<>>]

\* what a read of a key gives; of an absent key (operator[] of a const json)
\* it is undefined, and junk stands for what is read then
at(settings, key, junk) ==
    IF contains(settings, key) THEN settings[key].value ELSE junk

\* what an undefined read of an integer may give
JunkInt == { 0, 1 }

\* the initial spin the three calculations pass to run_simulation
initial_s0_of(settings, junk) ==
    IF contains(settings, "initial_s0")
    THEN at(settings, "N_thermalization_steps", junk)
    ELSE INITIAL_S0_DEFAULT

N_thermalization_steps_of(settings) ==
    IF contains(settings, "N_thermalization_steps")
    THEN settings.N_thermalization_steps.value
    ELSE N_THERMALIZATION_STEPS_DEFAULT

samples_per_point_of(settings) ==
    IF contains(settings, "samples_per_point")
    THEN settings.samples_per_point.value
    ELSE SAMPLES_PER_POINT_DEFAULT

\* the call run_simulation(beta, initial_s0, H, GAMMA, N_total_steps,
\* N_thermalization_steps); generated is the value GAMMA had in the settings
\* or the range
run_simulation_call(settings, spin, gamma, generated) ==
    [beta |-> settings.beta.value, initial_s0 |-> spin, H |-> settings.H.value,
     GAMMA |-> gamma, generated |-> generated,
     N_total_steps |-> settings.N_total_steps.value,
     N_thermalization_steps |-> N_thermalization_steps_of(settings)]

\* the guard of sweep left out
avoid_zero_gamma_never(gamma) == gamma

\* sweep: avoid GAMMA = 0, use a value extremely close to 0
avoid_zero_gamma(gamma) ==
    IF below_epsilon(gamma) THEN Dec(1, -10) ELSE gamma

RECURSIVE Repeat(_, _)
Repeat(x, n) == IF n <= 0 THEN <<>> ELSE <<x>> \o Repeat(x, n - 1)

\* the calls the loop of sweep makes for the values of GAMMA, samples_per_point
\* for each
RECURSIVE sweep_calls(_, _, _)
sweep_calls(settings, spin, values) ==
    IF values = <<>> THEN <<>>
    ELSE Repeat(run_simulation_call(settings, spin, avoid_zero_gamma(Head(values)), Head(values)),
                samples_per_point_of(settings))
         \o sweep_calls(settings, spin, Tail(values))

\* the state after launch_calculations ran a calculation that made the calls
Launched(calls) == [setup EXCEPT !.pc = "done", !.calls = calls]
Exited == [setup EXCEPT !.pc = "exit"]

single_run ==
    /\ setup.pc = "read"
    /\ setup.settings.CALC_TYPE = "single"
    /\ IF ~ contains(setup.settings, "GAMMA")
       THEN setup' = Exited
       ELSE \E junk \in JunkInt :
              setup' = Launched(<<run_simulation_call(setup.settings,
                                                      initial_s0_of(setup.settings, junk),
                                                      setup.settings.GAMMA.value,
                                                      setup.settings.GAMMA.value)>>)
    /\ UNCHANGED <<beta, s0, H, GAMMA, vertices, mt_generator, sim, last, prev, twin, streams>>

sweep_run ==
    /\ setup.pc = "read"
    /\ setup.settings.CALC_TYPE = "sweep"
    /\ LET r == range_generator(setup.settings)
       IN  IF r.exit
           THEN setup' = Exited
           ELSE \E junk \in JunkInt :
                  setup' = Launched(sweep_calls(setup.settings,
                                                initial_s0_of(setup.settings, junk), r.values))
    /\ UNCHANGED <<beta, s0, H, GAMMA, vertices, mt_generator, sim, last, prev, twin, streams>>

convergence_test ==
    /\ setup.pc = "read"
    /\ setup.settings.CALC_TYPE = "convergence-test"
    /\ IF ~ contains(setup.settings, "GAMMA")
       THEN setup' = Exited
       ELSE \E junk \in JunkInt :
              setup' = Launched(<<run_simulation_call(setup.settings,
                                                      initial_s0_of(setup.settings, junk),
                                                      setup.settings.GAMMA.value,
                                                      setup.settings.GAMMA.value)>>)
    /\ UNCHANGED <<beta, s0, H, GAMMA, vertices, mt_generator, sim, last, prev, twin, streams>>

\* read_settings returned the settings of a file
InitLaunch ==
    /\ InitDiagram
    /\ beta = MaxBeta /\ s0 = 1 /\ vertices = <<>>
    /\ sim = NoSim
    /\ last = [call |-> NoCall, pre |-> Snapshot, gen |-> mt_generator]
    /\ prev = NoPrev
    /\ twin = NoTwin
    /\ streams = NoStreams
    /\ \E settings \in Settings : setup = [pc |-> "read", settings |-> settings, calls |-> <<>>]

NextLaunch == single_run \/ sweep_run \/ convergence_test

SpecLaunch == InitLaunch /\ [][NextLaunch]_vars

\* ------------------------- attempt_spin_flip called again and again
\* one call of attempt_spin_flip; prev keeps the call before it
FlipCall ==
    /\ \E RNacc \in CoreAcc(flip_rate) : attempt_spin_flip(RNacc)
    /\ prev' = last
    /\ UNCHANGED <<mt_generator, sim, twin, setup, streams>>

NextFlip == FlipCall

SpecFlip == Init /\ [][NextFlip]_vars

\* ------------------ attempt_add_segment and attempt_remove_segment in turn
\* a caller that makes one call of attempt_add_segment and then one call of
\* attempt_remove_segment on the diagram it left; prev keeps the call before
\* the last
AddCall ==
    /\ last.call.op = "none"
    /\ Len(vertices) + 2 <= MaxOrder
    /\ \E RN1 \in Unit :
          /\ IsInt(RMul(RN1, RInt(beta)))
          /\ \E RN2 \in Unit :
                /\ on_grid(vertices, beta, RN1, RN2)
                /\ \E RNacc \in CoreAcc(add_rate(RN1, RN2)) : attempt_add_segment(RN1, RN2, RNacc)
    /\ prev' = last
    /\ UNCHANGED <<mt_generator, sim, twin, setup, streams>>

RemoveCall ==
    /\ last.call.op = "add"
    /\ \E RN1 \in RemoveDraws : \E RNacc \in CoreAcc(remove_rate(RN1)) :
          attempt_remove_segment(RN1, RNacc)
    /\ prev' = last
    /\ UNCHANGED <<mt_generator, sim, twin, setup, streams>>

NextAddRemove == AddCall \/ RemoveCall

SpecAddRemove == Init /\ [][NextAddRemove]_vars

\* ================================================================ claims
StrictlyIncreasing(v) == \A i \in 1 .. (Len(v) - 1) : v[i] < v[i + 1]

InsideOpenInterval(v, b) == \A i \in 1 .. Len(v) : 0 < v[i] /\ v[i] < b

\* the times an add call proposes, from its draws and the diagram it was
\* called on: tau1 = RN1*beta, tau3 the first vertex greater than tau1 (beta
\* if none), tau2 = tau1 + RN2*(tau3 - tau1)
ClaimPos(v, tau1) ==
    IF \E i \in 1 .. Len(v) : v[i] > tau1
    THEN CHOOSE i \in 1 .. Len(v) : v[i] > tau1 /\ \A j \in 1 .. (i - 1) : ~ (v[j] > tau1)
    ELSE Len(v) + 1
ClaimTau1(c, pre) == (c.RN1[1] * pre.beta) \div c.RN1[2]
ClaimTau3(c, pre) ==
    LET pos == ClaimPos(pre.vertices, ClaimTau1(c, pre))
    IN  IF pos <= Len(pre.vertices) THEN pre.vertices[pos] ELSE pre.beta
ClaimTau2(c, pre) ==
    ClaimTau1(c, pre) + (c.RN2[1] * (ClaimTau3(c, pre) - ClaimTau1(c, pre))) \div c.RN2[2]

\* ------------------------------------- construction and reset_diagram
\* the arguments offered to the Diagram constructor and to reset_diagram
ArgBeta == { -1, 0, MaxBeta }
ArgSpin == { -1, 0, 1 }
ArgH == { 0, 1 }
ArgGamma == { <<0, 1>>, <<1, 2>> }
ArgVertices == UNION { [1 .. n -> 0 .. (MaxBeta + 1)] : n \in 0 .. 2 }
Args == [beta : ArgBeta, s0 : ArgSpin, H : ArgH, GAMMA : ArgGamma,
         vertices : ArgVertices, seed : Seeds]

\* the diagram the arguments describe
diagram_of(a) == [beta |-> a.beta, s0 |-> a.s0, H |-> a.H, GAMMA |-> a.GAMMA, vertices |-> a.vertices]

\* Diagram_core::operator==
Diagram_core_eq(this, other) ==
    /\ this.beta = other.beta
    /\ this.s0 = other.s0
    /\ this.H = other.H
    /\ REq(this.GAMMA, other.GAMMA)
    /\ this.vertices = other.vertices

\* Diagram::Diagram: the Diagram_core constructor, then the generator is
\* seeded; a throw leaves no new object, cur and gen are what there was
Diagram_ctor_outcome(cur, gen, a) ==
    IF Diagram_core_accepts(a.beta, a.s0, a.H, a.GAMMA, a.vertices)
    THEN [fault |-> "none", diagram |-> diagram_of(a), gen |-> [seed |-> a.seed]]
    ELSE [fault |-> "invalid_argument", diagram |-> cur, gen |-> gen]

\* the checks of Diagram::reset_diagram: TRUE iff it does not throw
reset_accepts(b, s, h, g, v) ==
    /\ b > 0
    /\ ~ (s # 1 /\ s # -1)
    /\ ~ (h = 0 /\ g[1] = 0)
    /\ Len(v) % 2 = 0
    /\ \A i \in 1 .. Len(v) : ~ (v[i] > b)
    /\ is_sorted(v)

\* reset_outcome that assigns the members before it checks the arguments
reset_outcome_assign_first(cur, gen, a) ==
    IF reset_accepts(a.beta, a.s0, a.H, a.GAMMA, a.vertices)
    THEN [fault |-> "none", diagram |-> diagram_of(a), gen |-> [seed |-> a.seed]]
    ELSE [fault |-> "invalid_argument", diagram |-> diagram_of(a), gen |-> gen]

\* reset_outcome that does not assign the vertices
reset_outcome_keeps_vertices(cur, gen, a) ==
    IF reset_accepts(a.beta, a.s0, a.H, a.GAMMA, a.vertices)
    THEN [fault |-> "none", diagram |-> [diagram_of(a) EXCEPT !.vertices = cur.vertices],
          gen |-> [seed |-> a.seed]]
    ELSE [fault |-> "invalid_argument", diagram |-> cur, gen |-> gen]

\* Diagram::reset_diagram: the checks, then the assignments and the seeding
reset_outcome(cur, gen, a) ==
    IF reset_accepts(a.beta, a.s0, a.H, a.GAMMA, a.vertices)
    THEN [fault |-> "none", diagram |-> diagram_of(a), gen |-> [seed |-> a.seed]]
    ELSE [fault |-> "invalid_argument", diagram |-> cur, gen |-> gen]

\* the state after a construction or a reset with outcome o
Becomes(op, a, o) ==
    /\ beta' = o.diagram.beta
    /\ s0' = o.diagram.s0
    /\ H' = o.diagram.H
    /\ GAMMA' = o.diagram.GAMMA
    /\ vertices' = o.diagram.vertices
    /\ mt_generator' = o.gen
    /\ last' = [call |-> [op |-> op, RN1 |-> <<0, 1>>, RN2 |-> <<0, 1>>, RNacc |-> <<0, 1>>,
                          ret |-> FALSE, fault |-> o.fault, args |-> a],
                pre |-> Snapshot, gen |-> mt_generator]
    /\ UNCHANGED <<sim, prev, twin, setup, streams>>

\* a Diagram is constructed from the arguments a; when the constructor
\* returns, the variables describe the new object
ConstructDiagram ==
    /\ last.call.op = "none"
    /\ \E a \in Args : Becomes("ctor", a, Diagram_ctor_outcome(Snapshot, mt_generator, a))

\* reset_diagram is called on the diagram
ResetDiagram ==
    /\ last.call.op = "none"
    /\ \E a \in Args : Becomes("reset", a, reset_outcome(Snapshot, mt_generator, a))

\* the diagrams the calls are made on: orders 0 and 2, vertices strictly
\* increasing inside (0, beta)
InitSetup ==
    /\ Init
    /\ Len(vertices) <= 2
    /\ StrictlyIncreasing(vertices)
    /\ InsideOpenInterval(vertices, beta)

NextSetup == ConstructDiagram \/ ResetDiagram

SpecSetup == InitSetup /\ [][NextSetup]_vars

\* ------------------------------------ the implementation src/src/diagram.cpp
\* what the read of *vertices.end() may yield: the behaviour is undefined, the
\* value is whatever lies in the list's sentinel node
EndReads == { 0, MaxBeta + 1 }

\* everything attempt_remove_segment of src/src/diagram.cpp computes before
\* the acceptance test (order > 0); junk is the value a read of *end() yields
legacy_remove_proposal(v, b, s, h, g, RN1, junk) ==
    LET segment_toberemoved_index == Trunc(RMul(RN1, RInt((Len(v) - 2) + 1)))
        tau1_it == 1 + segment_toberemoved_index
        tau2_it == tau1_it + 1
        tau1 == v[tau1_it]
        tau2 == v[tau2_it]
        tau3_it == tau2_it + 1
        tau2max == IF tau3_it = end(v) THEN junk ELSE b
        segment_toberemoved_spin == s * PowMinus1(segment_toberemoved_index + 1)
    IN  [tau1 |-> tau1, tau2 |-> tau2, tau2max |-> tau2max,
         tau1_it |-> tau1_it, tau3_it |-> tau3_it,
         read_end |-> (tau3_it = end(v)),
         rate |-> acceptance_rate_remove(v, b, h, g, tau1, tau2, tau2max, segment_toberemoved_spin)]

\* return value, vertex list and fault of that attempt_remove_segment
legacy_remove_outcome(v, b, s, h, g, RN1, RNacc, junk) ==
    IF Len(v) = 0 THEN [ret |-> FALSE, vertices |-> v, fault |-> "none"]
    ELSE LET p == legacy_remove_proposal(v, b, s, h, g, RN1, junk)
             f == IF p.read_end THEN "read_end" ELSE "none"
         IN  IF Accepts(RNacc, p.rate)
             THEN [ret |-> TRUE, vertices |-> erase(v, p.tau1_it, p.tau3_it), fault |-> f]
             ELSE [ret |-> FALSE, vertices |-> v, fault |-> f]

legacy_attempt_remove_segment(RN1, RNacc, junk) ==
    /\ LET o == legacy_remove_outcome(vertices, beta, s0, H, GAMMA, RN1, RNacc, junk)
       IN  /\ vertices' = o.vertices
           /\ last' = [call |-> [op |-> "remove", RN1 |-> RN1, RN2 |-> <<0, 1>>, RNacc |-> RNacc,
                                 ret |-> o.ret, fault |-> o.fault, args |-> NoArgs],
                       pre |-> Snapshot, gen |-> mt_generator]
    /\ UNCHANGED <<beta, s0, H, GAMMA>>

\* Diagram::attempt_remove_segment() of src/src/diagram.cpp
LegacyRemove ==
    /\ UNCHANGED <<mt_generator, sim, prev, twin, setup, streams>>
    /\ \E RN1 \in RemoveDraws : \E junk \in EndReads : \E RNacc \in { <<0, 1>>, <<1, 2>> } :
          legacy_attempt_remove_segment(RN1, RNacc, junk)

\* attempt_add_segment and attempt_spin_flip of src/src/diagram.cpp are, up
\* to the names of the members, those of the other implementation
LegacyAdd == Diagram_attempt_add_segment /\ UNCHANGED <<mt_generator, sim, prev, twin, setup, streams>>
LegacyFlip == Diagram_attempt_spin_flip /\ UNCHANGED <<mt_generator, sim, prev, twin, setup, streams>>

\* a diagram with an even number of strictly increasing vertices inside
\* (0, beta)
InitLegacy ==
    /\ Init
    /\ StrictlyIncreasing(vertices)
    /\ InsideOpenInterval(vertices, beta)

NextLegacy == LegacyAdd \/ LegacyRemove \/ LegacyFlip

SpecLegacy == InitLegacy /\ [][NextLegacy]_vars

\* C1: in every reachable state the number of vertices is even
C1_EvenOrder == Len(vertices) % 2 = 0

C1_Witness ==
    /\ last.call.op = "add"
    /\ last.call.ret
    /\ Len(last.pre.vertices) = 2
    /\ Len(vertices) = 4

\* C2: after an accepted add or remove on a strictly increasing vertex list,
\* for every draw RN1, RN2 in [0,1) (RN2 = 0 and tau1 equal to an existing
\* vertex included), the vertex list is strictly increasing
C2_SortedAfterAccepted ==
    (/\ last.call.op \in { "add", "remove" }
     /\ last.call.ret
     /\ StrictlyIncreasing(last.pre.vertices))
        => StrictlyIncreasing(vertices)

\* C3: in every state reached from the zero-order diagram with draws in
\* [0,1), every vertex lies strictly between 0 and beta
C3_VerticesInsideOpenInterval == InsideOpenInterval(vertices, beta)

\* C4: for a fixed proposal each update returns true and applies its
\* mutation iff the acceptance draw is strictly below the acceptance rate
\* computed for the proposal; a draw equal to the rate is rejected
C4_AcceptedIffBelowRate ==
    LET c == last.call
        pre == last.pre
        pa == add_proposal(pre.vertices, pre.beta, pre.s0, pre.H, pre.GAMMA, c.RN1, c.RN2)
        pr == remove_proposal(pre.vertices, pre.beta, pre.s0, pre.H, pre.GAMMA, c.RN1)
        rf == acceptance_rate_flip(pre.beta, pre.H, pre.s0, sum_deltatau(pre.vertices))
    IN  /\ c.op = "add" =>
              /\ c.ret <=> RLess(c.RNacc, pa.rate)
              /\ c.ret <=> (vertices # pre.vertices)
        /\ (c.op = "remove" /\ Len(pre.vertices) > 0) =>
              /\ c.ret <=> RLess(c.RNacc, pr.rate)
              /\ c.ret <=> (vertices # pre.vertices)
        /\ c.op = "flip" =>
              /\ c.ret <=> RLess(c.RNacc, rf)
              /\ c.ret <=> (s0 # pre.s0)

\* a remove call whose acceptance draw equals the rate of its proposal
C4_Witness ==
    /\ last.call.op = "remove"
    /\ Len(last.pre.vertices) > 0
    /\ REq(last.call.RNacc,
           remove_proposal(last.pre.vertices, last.pre.beta, last.pre.s0, last.pre.H,
                           last.pre.GAMMA, last.call.RN1).rate)
    /\ ~ last.call.ret

\* C5: whenever an update returns false, vertices, base spin, beta, H and
\* GAMMA are what they were before the call
C5_RejectedLeavesDiagram ==
    (last.call.op # "none" /\ ~ last.call.ret) => Snapshot = last.pre

C5_Witness ==
    /\ last.call.op = "add"
    /\ ~ last.call.ret
    /\ last.call.RNacc = <<1, 2>>
    /\ Len(last.pre.vertices) = 2

\* C6: attempt_remove_segment on the zero-order diagram returns false and
\* leaves the diagram unchanged for every RN1 and every acceptance draw, a
\* negative one included
C6_ZeroOrderRemoveRejected ==
    (last.call.op = "remove" /\ last.pre.vertices = <<>>)
        => (~ last.call.ret /\ Snapshot = last.pre)

C6_Witness ==
    /\ last.call.op = "remove"
    /\ last.pre.vertices = <<>>
    /\ last.call.RNacc = <<-1, 1>>

\* C7: attempt_add_segment raises the order by exactly 2 when it returns
\* true and leaves it unchanged when it returns false
C7_AddChangesOrderByTwo ==
    last.call.op = "add"
        => Len(vertices) = Len(last.pre.vertices) + (IF last.call.ret THEN 2 ELSE 0)

C7_Witness ==
    /\ last.call.op = "add"
    /\ last.call.ret
    /\ Len(last.pre.vertices) = 0
    /\ Len(vertices) = 2

\* C8: attempt_remove_segment lowers the order by exactly 2 when it returns
\* true and leaves it unchanged when it returns false
C8_RemoveChangesOrderByTwo ==
    last.call.op = "remove"
        => Len(vertices) = Len(last.pre.vertices) - (IF last.call.ret THEN 2 ELSE 0)

C8_Witness ==
    /\ last.call.op = "remove"
    /\ last.call.ret
    /\ Len(last.pre.vertices) = 4
    /\ Len(vertices) = 2

\* C9: after an accepted add the vertex list is the previous list with
\* tau1 = RN1*beta and tau2 = tau1 + RN2*(tau3 - tau1) inserted, in that
\* order and adjacent, immediately before the first previous vertex greater
\* than tau1 (at the end if there is none)
C9_AddInsertsPair ==
    (last.call.op = "add" /\ last.call.ret) =>
        LET v == last.pre.vertices
            pos == ClaimPos(v, ClaimTau1(last.call, last.pre))
        IN  vertices = SubSeq(v, 1, pos - 1)
                         \o <<ClaimTau1(last.call, last.pre), ClaimTau2(last.call, last.pre)>>
                         \o SubSeq(v, pos, Len(v))

\* an accepted insertion in the middle of the list, tau1 equal to the vertex
\* in front of it
C9_Witness ==
    /\ last.call.op = "add"
    /\ last.call.ret
    /\ Len(last.pre.vertices) = 2
    /\ ClaimPos(last.pre.vertices, ClaimTau1(last.call, last.pre)) = 2
    /\ last.pre.vertices[1] = ClaimTau1(last.call, last.pre)
    /\ ClaimTau1(last.call, last.pre) < ClaimTau2(last.call, last.pre)

\* C10: after an accepted remove on a diagram of order n > 0 the vertex list
\* is the previous list without the two adjacent vertices at 0-based
\* positions k and k+1, k = floor(RN1*(n-1))
ClaimK(c, pre) == (c.RN1[1] * (Len(pre.vertices) - 1)) \div c.RN1[2]

C10_RemoveErasesPair ==
    (last.call.op = "remove" /\ last.call.ret) =>
        LET v == last.pre.vertices
            k == ClaimK(last.call, last.pre)
        IN  /\ Len(v) > 0
            /\ vertices = SubSeq(v, 1, k) \o SubSeq(v, k + 3, Len(v))

\* the last pair of an order-4 diagram is removed by a draw RN1 for which
\* RN1*(n-1) is an integer
C10_Witness ==
    /\ last.call.op = "remove"
    /\ last.call.ret
    /\ Len(last.pre.vertices) = 4
    /\ StrictlyIncreasing(last.pre.vertices)
    /\ ClaimK(last.call, last.pre) = 2

\* C11: two consecutive accepted attempt_spin_flip calls return the diagram
\* to its original base spin with vertices, beta, H and GAMMA unchanged, and
\* between the two calls the base spin is the negation of the original
C11_FlipTwiceRestores ==
    (/\ prev.call.op = "flip" /\ prev.call.ret
     /\ last.call.op = "flip" /\ last.call.ret)
        => /\ Snapshot = prev.pre
           /\ last.pre = [prev.pre EXCEPT !.s0 = -prev.pre.s0]

\* two accepted flips in a row on a diagram with vertices, the second one
\* accepted by a draw inside [0,1)
C11_Witness ==
    /\ prev.call.op = "flip" /\ prev.call.ret
    /\ last.call.op = "flip" /\ last.call.ret
    /\ last.call.RNacc = <<1, 2>>
    /\ Len(vertices) = 2

\* C12: called on a diagram with an even number of strictly increasing
\* vertices inside (0, beta) and with draws in [0,1), an update returns true
\* or false without an error and without reading or erasing a position
\* outside the vertex sequence
C12_NoFaultOnWellFormed ==
    (/\ last.call.op \in { "add", "remove", "flip" }
     /\ StrictlyIncreasing(last.pre.vertices)
     /\ InsideOpenInterval(last.pre.vertices, last.pre.beta))
        => last.call.fault = "none"

\* C13: for an accepted add that turns D (order n) into D' by inserting
\* (tau1, tau2) before tau2max with segment spin s, acceptance_rate_add on D
\* times acceptance_rate_remove of the same (tau1, tau2, tau2max, s) on D' is
\* 1, and acceptance_rate_add on D is value(D')/value(D) * beta *
\* (tau2max - tau1) / (n + 1)
C13_DetailedBalance ==
    (last.call.op = "add" /\ last.call.ret) =>
        LET D == last.pre
            p == add_proposal(D.vertices, D.beta, D.s0, D.H, D.GAMMA, last.call.RN1, last.call.RN2)
            back == acceptance_rate_remove(vertices, beta, H, GAMMA,
                                           p.tau1, p.tau2, p.tau2max, p.new_segment_spin)
            weights == value_ratio(value(vertices, beta, s0, H, GAMMA),
                                   value(D.vertices, D.beta, D.s0, D.H, D.GAMMA))
        IN  /\ REq(RMul(p.rate, back), <<1, 1>>)
            /\ REq(p.rate,
                   RMul(weights, RDiv(RInt(D.beta * (p.tau2max - p.tau1)), RInt(Len(D.vertices) + 1))))

\* an accepted add between the two vertices of an order-2 diagram, the new
\* segment of nonzero length
C13_Witness ==
    /\ last.call.op = "add" /\ last.call.ret
    /\ Len(last.pre.vertices) = 2
    /\ StrictlyIncreasing(vertices)
    /\ vertices[1] = last.pre.vertices[1]
    /\ vertices[4] = last.pre.vertices[2]

\* the arguments a are invalid: beta <= 0, or the spin is not +1 or -1, or H
\* and GAMMA are both zero, or the vertex list has odd length, or a vertex is
\* greater than beta, or the list is not sorted ascending
ClaimInvalidArgs(a) ==
    \/ a.beta <= 0
    \/ a.s0 \notin { 1, -1 }
    \/ (a.H = 0 /\ a.GAMMA[1] = 0)
    \/ Len(a.vertices) % 2 = 1
    \/ \E i \in 1 .. Len(a.vertices) : a.vertices[i] > a.beta
    \/ \E i \in 1 .. (Len(a.vertices) - 1) : a.vertices[i] > a.vertices[i + 1]

C15_ZeroGammaRejected ==
    (last.call.op \in { "ctor", "reset" } /\ last.call.args.GAMMA[1] = 0)
        => last.call.fault = "invalid_argument"

\* C16: a diagram that the constructor or reset_diagram accepts has beta > 0,
\* base spin +1 or -1, an even number of vertices, strictly increasing, each
\* greater than 0 and at most beta
C16_AcceptedIsWellFormed ==
    (last.call.op \in { "ctor", "reset" } /\ last.call.fault = "none")
        => /\ beta > 0
           /\ s0 \in { 1, -1 }
           /\ Len(vertices) % 2 = 0
           /\ StrictlyIncreasing(vertices)
           /\ \A i \in 1 .. Len(vertices) : 0 < vertices[i] /\ vertices[i] <= beta

C18_ResetEqualsFresh ==
    (last.call.op = "reset" /\ last.call.fault = "none") =>
        LET fresh == Diagram_ctor_outcome(last.pre, last.gen, last.call.args)
        IN  /\ fresh.fault = "none"
            /\ Diagram_core_eq(Snapshot, fresh.diagram)

\* a successful reset of an order-2 diagram to other vertices, the other
\* spin and other fields
C18_Witness ==
    /\ last.call.op = "reset"
    /\ last.call.fault = "none"
    /\ Len(last.pre.vertices) = 2
    /\ Len(vertices) = 2
    /\ vertices # last.pre.vertices
    /\ s0 # last.pre.s0
    /\ H # last.pre.H

\* C19: at every point of run_simulation's loop the three attempted counters
\* add up to the number of iterations completed, thermalization iterations
\* included, and at return they add up to N_total_steps.
C19_OneAttemptPerIteration ==
    sim.pc \in { "loop", "done" } =>
        /\ sim.N_attempted_addsegment + sim.N_attempted_removesegment + sim.N_attempted_flips
              = sim.loop_iteration
        /\ sim.loop_iteration <= sim.N_total_steps
        /\ sim.pc = "done" =>
              sim.N_attempted_addsegment + sim.N_attempted_removesegment + sim.N_attempted_flips
                = sim.N_total_steps

\* a run that returned after iterations of each kind, one of them during
\* thermalization
C19_Witness ==
    /\ sim.pc = "done"
    /\ sim.N_total_steps = MaxSteps
    /\ sim.N_thermalization_steps >= 1
    /\ sim.N_attempted_addsegment >= 1
    /\ sim.N_attempted_removesegment + sim.N_attempted_flips >= 1

\* C20: when 0 <= N_thermalization_steps <= N_total_steps the N_measures
\* returned by run_simulation is N_total_steps - N_thermalization_steps.
C20_MeasuresAfterThermalization ==
    (/\ sim.pc = "done"
     /\ 0 <= sim.N_thermalization_steps
     /\ sim.N_thermalization_steps <= sim.N_total_steps)
        => sim.N_measures = sim.N_total_steps - sim.N_thermalization_steps

\* a run that returned with both thermalization and measured iterations
C20_Witness ==
    /\ sim.pc = "done"
    /\ sim.N_thermalization_steps >= 1
    /\ sim.N_thermalization_steps < sim.N_total_steps
    /\ sim.N_measures >= 1
    /\ sim.N_accepted_addsegment >= 1

\* the sample an iteration adds to the accumulators, seen from one step of
\* the loop: the order, spin and vertices it reads are those of the state the
\* update attempt leaves
SampleOfStep ==
    LET sampled == sim.loop_iteration >= sim.N_thermalization_steps
    IN  /\ sim'.N_measures = sim.N_measures + AsCount(sampled)
        /\ sim'.temp_sigmax = sim.temp_sigmax + (IF sampled THEN order(vertices') ELSE 0)
        /\ sim'.temp_avgorder = sim.temp_avgorder + (IF sampled THEN order(vertices') ELSE 0)
        /\ REq(sim'.temp_sigmaz,
               IF sampled
               THEN RAdd(sim.temp_sigmaz, sigmaz_sample(vertices', beta', s0'))
               ELSE sim.temp_sigmaz)

\* C21: iteration i of run_simulation adds a sample to the accumulators if and
\* only if i >= N_thermalization_steps, and the sample reads the diagram as it
\* is after that iteration's update attempt.
C21_SampleAfterUpdate ==
    [][(sim.pc = "loop" /\ sim'.pc = "loop") => SampleOfStep]_vars

\* sampled iterations whose update changed the order and the spin, after a
\* thermalization iteration
C21_Witness ==
    /\ sim.pc = "loop"
    /\ sim.N_thermalization_steps = 1
    /\ sim.N_measures = 2
    /\ sim.N_accepted_addsegment >= 1
    /\ last.call.op = "flip"
    /\ last.call.ret
    /\ s0 # last.pre.s0

\* the largest element of a sequence of orders, 0 for the empty one
RECURSIVE MaxOf(_)
MaxOf(q) ==
    IF q = <<>> THEN 0
    ELSE LET m == MaxOf(Tail(q)) IN IF Head(q) > m THEN Head(q) ELSE m

\* C22: the max_diagram_order run_simulation returns is the maximum order the
\* diagram had after any iteration of the whole run, the iterations before
\* N_thermalization_steps included.
C22_MaxOrderOfWholeRun ==
    sim.pc = "done" => sim.max_diagram_order = MaxOf(sim.order_after)

\* C23: the avg_diagram_order run_simulation returns is order_sum / N_measures,
\* the mean of the post-update orders of the sampled iterations, with its
\* fractional part.
C23_AvgOrderIsMean ==
    (sim.pc = "done" /\ sim.N_measures > 0) =>
        REq(RInt(sim.avg_diagram_order), RDiv(RInt(sim.temp_avgorder), RInt(sim.N_measures)))

\* a double compares equal to a double: never when either is a NaN
DoubleEq(a, b) ==
    /\ ~ (a[1] = 0 /\ a[2] = 0)
    /\ ~ (b[1] = 0 /\ b[2] = 0)
    /\ REq(a, b)

\* the results of two calls are equal in every field (run_time is not part
\* of sim)
ResultsEq(a, b) ==
    /\ \A f \in { "N_total_steps", "N_thermalization_steps", "N_measures",
                   "N_attempted_flips", "N_accepted_flips",
                   "N_attempted_addsegment", "N_accepted_addsegment",
                   "N_attempted_removesegment", "N_accepted_removesegment",
                   "max_diagram_order", "avg_diagram_order" } : a[f] = b[f]
    /\ DoubleEq(a.measured_sigmax, b.measured_sigmax)
    /\ DoubleEq(a.measured_sigmaz, b.measured_sigmaz)

\* C24: the updates are deterministic (the same operation with the same
\* random inputs on diagrams in the same state gives the same return value
\* and the same state), and two calls of run_simulation with equal
\* parameters and seeds return results equal in every field but run_time.
C24_Deterministic ==
    sim.pc \in { "loop", "done" } =>
        /\ twin.diagram = Snapshot
        /\ twin.ret = last.call.ret
        /\ sim.pc = "done" => ResultsEq(sim, twin.sim)

\* the part of C24 about the updates and the counters, and the results of
\* the runs that took a measure
C24_DeterministicWithMeasures ==
    sim.pc \in { "loop", "done" } =>
        /\ twin.diagram = Snapshot
        /\ twin.ret = last.call.ret
        /\ sim.pc = "loop" => twin.sim = sim
        /\ (sim.pc = "done" /\ sim.N_measures > 0) => ResultsEq(sim, twin.sim)

\* C26: single_run, sweep and convergence_test pass the value of the
\* initial_s0 setting to run_simulation as the initial spin when the key is
\* present, and +1 when it is absent.
C26_InitialSpinFromSettings ==
    setup.pc = "done" =>
        \A i \in 1 .. Len(setup.calls) :
            setup.calls[i].initial_s0 =
                IF setup.settings.initial_s0.present
                THEN setup.settings.initial_s0.value
                ELSE 1

\* C27: in a sweep run_simulation is never called with GAMMA equal to 0: a
\* value of the generated range whose magnitude is below machine epsilon is
\* replaced by a nonzero value, every other value is passed unchanged.
C27_SweepAvoidsZeroGamma ==
    (setup.pc = "done" /\ setup.settings.CALC_TYPE = "sweep") =>
        \A i \in 1 .. Len(setup.calls) :
            LET c == setup.calls[i]
            IN  /\ c.GAMMA.m # 0
                /\ ~ below_epsilon(c.generated) => c.GAMMA = c.generated

\* a sweep over a range that holds 0 and values that are passed as they are
C27_Witness ==
    /\ setup.pc = "done"
    /\ setup.settings.CALC_TYPE = "sweep"
    /\ \E i \in 1 .. Len(setup.calls) : setup.calls[i].generated.m = 0
    /\ \E i \in 1 .. Len(setup.calls) :
          /\ setup.calls[i].generated.m # 0
          /\ setup.calls[i].GAMMA = setup.calls[i].generated

\* what attempt_add_segment computed in the last call, an add
LastAddProposal ==
    add_proposal(last.pre.vertices, last.pre.beta, last.pre.s0, last.pre.H, last.pre.GAMMA,
                 last.call.RN1, last.call.RN2)

\* the first vertex of v strictly greater than x, b if there is none
ClaimFirstGreater(v, x, b) ==
    IF \E i \in 1 .. Len(v) : v[i] > x
    THEN v[CHOOSE i \in 1 .. Len(v) : v[i] > x /\ \A k \in 1 .. (i - 1) : ~ (v[k] > x)]
    ELSE b

ClaimCountLess(v, x) == Cardinality({ i \in 1 .. Len(v) : v[i] < x })
ClaimCountLeq(v, x) == Cardinality({ i \in 1 .. Len(v) : v[i] <= x })

\* C28 as stated: in attempt_add_segment tau3 is the first vertex strictly
\* greater than tau1 (beta if none) and the spin of the new segment is
\* base_spin * (-1)^(j+1), j the number of vertices strictly less than tau1,
\* also when tau1 coincides with a vertex.
C28_SpinByVerticesBelowTau1 ==
    last.call.op = "add" =>
        LET tau1 == ClaimTau1(last.call, last.pre)
        IN  /\ LastAddProposal.tau2max = ClaimFirstGreater(last.pre.vertices, tau1, last.pre.beta)
            /\ LastAddProposal.new_segment_spin
                  = last.pre.s0 * PowMinus1(ClaimCountLess(last.pre.vertices, tau1) + 1)

\* C28 amended: tau3 is the first vertex strictly greater than tau1 (beta if
\* none) and the spin of the new segment is base_spin * (-1)^(j+1), j the
\* number of vertices less than or equal to tau1, those before tau3.
C28_SpinByVerticesUpToTau1 ==
    last.call.op = "add" =>
        LET tau1 == ClaimTau1(last.call, last.pre)
        IN  /\ LastAddProposal.tau2max = ClaimFirstGreater(last.pre.vertices, tau1, last.pre.beta)
            /\ LastAddProposal.new_segment_spin
                  = last.pre.s0 * PowMinus1(ClaimCountLeq(last.pre.vertices, tau1) + 1)

\* an add whose tau1 coincides with a vertex that has vertices after it
C28_Witness ==
    /\ last.call.op = "add"
    /\ \E i \in 1 .. (Len(last.pre.vertices) - 1) :
          /\ last.pre.vertices[i] = ClaimTau1(last.call, last.pre)
          /\ last.pre.vertices[i + 1] > ClaimTau1(last.call, last.pre)

\* the acceptance rate of a remove as C29 states its operands: tau1 and tau2
\* at 0-based positions k and k+1, tau2max the vertex at k+2 or beta, spin
\* base_spin * (-1)^(k+1)
ClaimRemoveRate(c, pre) ==
    LET v == pre.vertices
        k == ClaimK(c, pre)
    IN  acceptance_rate_remove(v, pre.beta, pre.H, pre.GAMMA, v[k + 1], v[k + 2],
                               IF k + 3 <= Len(v) THEN v[k + 3] ELSE pre.beta,
                               pre.s0 * PowMinus1(k + 1))

\* C29: attempt_remove_segment on a diagram of order n > 0 tests its draw
\* against the acceptance rate computed with k = floor(RN1*(n-1)), tau1 and
\* tau2 the vertices at positions k and k+1, tau2max the vertex at position
\* k+2 when it exists and beta when tau2 is the last vertex, and removed spin
\* base_spin * (-1)^(k+1).
C29_RemoveRateOperands ==
    (last.call.op = "remove" /\ Len(last.pre.vertices) > 0) =>
        last.call.ret = Accepts(last.call.RNacc, ClaimRemoveRate(last.call, last.pre))

\* C30: attempt_add_segment and attempt_remove_segment never change the base
\* spin, attempt_spin_flip never changes the vertex sequence, and none of the
\* three changes beta, H or GAMMA.
C30_UpdateFrames ==
    /\ last.call.op \in { "add", "remove" } => s0 = last.pre.s0
    /\ last.call.op = "flip" => vertices = last.pre.vertices
    /\ last.call.op \in { "add", "remove", "flip" } =>
          /\ beta = last.pre.beta
          /\ H = last.pre.H
          /\ GAMMA = last.pre.GAMMA

\* an accepted flip of a diagram that has vertices
C30_Witness ==
    /\ last.call.op = "flip"
    /\ last.call.ret
    /\ Len(vertices) >= 2
    /\ s0 = -last.pre.s0

\* the update a draw u of [0,1) stands for: add below 1/3, remove from 1/3
\* to below 2/3, spin flip from 2/3 on
ClaimKind(u) ==
    IF 3 * u[1] < u[2] THEN "add"
    ELSE IF 3 * u[1] < 2 * u[2] THEN "remove"
    ELSE "flip"

\* the attempted and the accepted counter of each kind of update
ClaimAttempted(sm, kind) ==
    IF kind = "add" THEN sm.N_attempted_addsegment
    ELSE IF kind = "remove" THEN sm.N_attempted_removesegment
    ELSE sm.N_attempted_flips

ClaimAccepted(sm, kind) ==
    IF kind = "add" THEN sm.N_accepted_addsegment
    ELSE IF kind = "remove" THEN sm.N_accepted_removesegment
    ELSE sm.N_accepted_flips

\* one iteration seen from its step: the draw it made selects one update,
\* which is the one attempted and the only one counted
SelectsOneUpdate ==
    LET kind == ClaimKind(sim'.which_update)
    IN  /\ last'.call.op = kind
        /\ \A k \in { "add", "remove", "flip" } :
              /\ ClaimAttempted(sim', k) = ClaimAttempted(sim, k) + AsCount(k = kind)
              /\ ClaimAccepted(sim', k)
                    = ClaimAccepted(sim, k) + AsCount(k = kind /\ last'.call.ret)

\* C31: in each iteration of run_simulation the draw u of [0,1) selects
\* exactly one update (add when u < 1/3, remove when 1/3 <= u < 2/3, spin flip
\* when u >= 2/3); the attempted counter of that kind and no other is
\* incremented by 1, and its accepted counter is incremented by 1 exactly when
\* the diagram reports acceptance.
C31_DrawSelectsOneUpdate ==
    [][(sim.pc = "loop" /\ sim'.pc = "loop") => SelectsOneUpdate]_vars

\* a run whose last draw was 1/3 and selected a remove that was accepted,
\* after an accepted add
C31_Witness ==
    /\ sim.pc = "loop"
    /\ sim.loop_iteration >= 2
    /\ sim.which_update = <<1, 3>>
    /\ last.call.op = "remove"
    /\ last.call.ret
    /\ sim.N_accepted_removesegment = 1
    /\ sim.N_attempted_flips = 0

\* the sum of the elements of q from position from on
RECURSIVE SumFrom(_, _)
SumFrom(q, from) ==
    IF from > Len(q) THEN 0
    ELSE q[from] + SumFrom(q, from + 1)

\* C32: at return from run_simulation the sigma_x accumulator is the sum, over
\* the sampled iterations, of the diagram order after that iteration's update
\* attempt, rejected attempts counted like accepted ones, and so it equals
\* the order-sum accumulator used for avg_diagram_order.
C32_SigmaxIsOrderSum ==
    sim.pc = "done" =>
        /\ sim.temp_sigmax = SumFrom(sim.order_after, sim.N_thermalization_steps + 1)
        /\ sim.temp_sigmax = sim.temp_avgorder

\* a run that returned after a thermalization iteration that left order 2 and
\* two sampled iterations, the last of them a rejected attempt on a diagram
\* of order 2
C32_Witness ==
    /\ sim.pc = "done"
    /\ sim.N_thermalization_steps = 1
    /\ sim.N_measures = 2
    /\ sim.order_after[1] = 2
    /\ ~ last.call.ret
    /\ order(vertices) = 2
    /\ sim.temp_sigmax = 4

\* the signed length of the segments of v on [0, b], the segment before the
\* first vertex having the sign of s and each vertex changing the sign:
\* the sum over i of s * (-1)^i * (t_(i+1) - t_i) with t_0 = 0, t_(n+1) = b
ClaimSignedLength(v, b, s) ==
    LET t == <<0>> \o v \o <<b>>
        RECURSIVE from(_)
        from(i) == IF i >= Len(t) THEN 0
                   ELSE s * PowMinus1(i - 1) * (t[i + 1] - t[i]) + from(i + 1)
    IN  from(1)

\* C33: for every diagram with an even number of strictly increasing vertices
\* in (0, beta) the sigma_z sample base_spin * (beta - 2*sum_deltatau) / beta
\* equals 1/beta times the sum over the segments of base_spin * (-1)^i times
\* the length of segment i; sum_deltatau is 0 on the diagram of order 0.
C33_SigmazIsSignedLength ==
    (/\ Len(vertices) % 2 = 0
     /\ StrictlyIncreasing(vertices)
     /\ InsideOpenInterval(vertices, beta)
     /\ s0 \in { 1, -1 })
        => /\ REq(sigmaz_sample(vertices, beta, s0),
                  RDiv(RInt(ClaimSignedLength(vertices, beta, s0)), RInt(beta)))
           /\ Len(vertices) = 0 => Diagram_core_sum_deltatau(vertices) = 0

\* a diagram of two segment pairs with base spin -1, left by an accepted
\* update
C33_Witness ==
    /\ Len(vertices) = 4
    /\ StrictlyIncreasing(vertices)
    /\ InsideOpenInterval(vertices, beta)
    /\ s0 = -1
    /\ Diagram_core_sum_deltatau(vertices) = 2
    /\ last.call.ret

\* C34: run_simulation terminates for every finite N_total_steps: on every
\* diagram the loop reaches, the pairwise scan of attempt_spin_flip stops
\* exactly at the end of the vertex list, and the loop ends after
\* N_total_steps iterations, after which the results are computed.
C34_Terminates ==
    /\ [](sim.pc = "loop" => spin_flip_scan(vertices, 1) = end(vertices))
    /\ <>(sim.pc = "done")

\* a run of MaxSteps iterations that returned, its last attempt a spin flip
\* that scanned a diagram of order 2 or more
C34_Witness ==
    /\ sim.pc = "done"
    /\ sim.N_total_steps = MaxSteps
    /\ sim.loop_iteration = MaxSteps
    /\ last.call.op = "flip"
    /\ Len(last.pre.vertices) >= 2

\* after is d with a pair of vertices inserted at 0-based positions k and k+1
ClaimInsertedAt(d, after, k) ==
    /\ Len(after) = Len(d) + 2
    /\ SubSeq(after, 1, k) = SubSeq(d, 1, k)
    /\ SubSeq(after, k + 3, Len(after)) = SubSeq(d, k + 1, Len(d))

\* C35: if attempt_add_segment is accepted on a diagram D and inserts its pair
\* at 0-based positions k and k+1, then an accepted attempt_remove_segment
\* whose RN1 selects pair index k restores exactly the vertex sequence of D
\* and leaves the base spin unchanged.
C35_AddRemoveRoundTrip ==
    (/\ prev.call.op = "add" /\ prev.call.ret
     /\ last.call.op = "remove" /\ last.call.ret)
        => /\ \E k \in 0 .. Len(prev.pre.vertices) :
                 ClaimInsertedAt(prev.pre.vertices, last.pre.vertices, k)
           /\ \A k \in 0 .. Len(prev.pre.vertices) :
                 (/\ ClaimInsertedAt(prev.pre.vertices, last.pre.vertices, k)
                  /\ ClaimK(last.call, last.pre) = k)
                    => /\ vertices = prev.pre.vertices
                       /\ s0 = prev.pre.s0
                       /\ s0 = last.pre.s0

\* a pair inserted between the two vertices of a diagram of order 2 and
\* removed again by a draw inside [0,1)
C35_Witness ==
    /\ prev.call.op = "add" /\ prev.call.ret
    /\ last.call.op = "remove" /\ last.call.ret
    /\ last.call.RNacc = <<1, 2>>
    /\ Len(prev.pre.vertices) = 2
    /\ StrictlyIncreasing(last.pre.vertices)
    /\ ClaimInsertedAt(prev.pre.vertices, last.pre.vertices, 1)
    /\ ClaimK(last.call, last.pre) = 1
    /\ vertices = prev.pre.vertices

\* C36: at every point of a run_simulation run, which starts from the diagram
\* of order 0, the diagram order is 2 * (N_accepted_addsegment -
\* N_accepted_removesegment), so N_accepted_removesegment never exceeds
\* N_accepted_addsegment.
C36_OrderFromAcceptedCounts ==
    sim.pc \in { "loop", "done" } =>
        /\ order(vertices) = 2 * (sim.N_accepted_addsegment - sim.N_accepted_removesegment)
        /\ sim.N_accepted_removesegment <= sim.N_accepted_addsegment

\* a run in which two adds and then a remove were accepted
C36_Witness ==
    /\ sim.pc = "loop"
    /\ sim.N_accepted_addsegment = 2
    /\ sim.N_accepted_removesegment = 1
    /\ sim.N_attempted_removesegment = 1
    /\ order(vertices) = 2

\* C37: at every point of a run_simulation run the base spin of the diagram
\* is initial_s0 when N_accepted_flips is even and -initial_s0 when it is odd,
\* and it is always +1 or -1.
C37_SpinFromAcceptedFlips ==
    sim.pc \in { "loop", "done" } =>
        /\ s0 = (IF sim.N_accepted_flips % 2 = 0 THEN sim.initial_s0 ELSE -sim.initial_s0)
        /\ s0 \in { 1, -1 }

\* a run started with spin -1 in which three flips were accepted
C37_Witness ==
    /\ sim.pc = "loop"
    /\ sim.initial_s0 = -1
    /\ sim.N_accepted_flips = 3
    /\ s0 = 1

\* C38: for every admissible input (N_total_steps >= 0 and
\* 0 <= N_thermalization_steps <= N_total_steps, N_total_steps = 0 and
\* N_thermalization_steps = N_total_steps included) run_simulation computes
\* measured_sigmax, measured_sigmaz and avg_diagram_order without dividing by
\* an N_measures of zero.
C38_NoDivisionByZeroMeasures ==
    (/\ sim.pc = "done"
     /\ 0 <= sim.N_thermalization_steps
     /\ sim.N_thermalization_steps <= sim.N_total_steps)
        => /\ sim.N_measures # 0
           /\ sim.measured_sigmax[2] # 0
           /\ sim.measured_sigmaz[2] # 0

\* C40: for every diagram reachable in a run the sampled sigma_z value
\* base_spin * (beta - 2*sum_deltatau) / beta lies in [-1, 1], because
\* 0 <= sum_deltatau <= beta on every reachable vertex sequence.
C40_SigmazSampleInUnitInterval ==
    sim.pc \in { "loop", "done" } =>
        /\ 0 <= Diagram_core_sum_deltatau(vertices)
        /\ Diagram_core_sum_deltatau(vertices) <= beta
        /\ ~ RLess(sigmaz_sample(vertices, beta, s0), <<-1, 1>>)
        /\ ~ RLess(<<1, 1>>, sigmaz_sample(vertices, beta, s0))

\* a sampled diagram of order 4 whose segments of flipped spin have positive
\* length, after an accepted flip
C40_Witness ==
    /\ sim.pc = "loop"
    /\ sim.N_measures >= 1
    /\ order(vertices) = 4
    /\ Diagram_core_sum_deltatau(vertices) >= 2
    /\ sim.N_accepted_flips = 1

\* C39: the update-choice stream and the diagram stream are independent:
\* each iteration consumes exactly one number of the update-choice generator
\* and every number the Diagram draws comes from its own generator, so the
\* i-th update attempted is the one the i-th output of the update-choice
\* generator selects, whatever the diagram's draws and the outcomes of the
\* attempts were.
C39_StreamsIndependent ==
    streams.pc = "run" =>
        /\ streams.update_choice.drawn = sim.loop_iteration
        /\ Len(streams.update_choice.outputs) = sim.loop_iteration
        /\ streams.diagram.drawn
              = 3 * sim.N_attempted_addsegment + 2 * sim.N_attempted_removesegment
                    + sim.N_attempted_flips
        /\ Len(streams.updates) = sim.loop_iteration
        /\ \A i \in 1 .. Len(streams.updates) :
              streams.updates[i] = ClaimKind(streams.update_choice.outputs[i])

\* a run of MaxSteps iterations that returned after an accepted add, a
\* rejected add and an attempt of another kind
C39_Witness ==
    /\ streams.pc = "run"
    /\ sim.pc = "done"
    /\ sim.N_total_steps = MaxSteps
    /\ streams.updates[1] = "add"
    /\ sim.N_attempted_addsegment = 2
    /\ sim.N_accepted_addsegment = 1
    /\ streams.diagram.drawn > MaxSteps

====
